---- MODULE Spec2Model ----
(***************************************************************************)
(* A model of the api_yamdb REST backend: the reviews/models.py entities   *)
(* and the api/views.py request handlers with their serializers and        *)
(* permission classes.  One action is one HTTP request handled from start  *)
(* to response; `resp` holds the response of the last request.             *)
(***************************************************************************)
EXTENDS Integers, Sequences, FiniteSets, TLC

VARIABLES
    users,        \* reviews_user table: pk -> row, NoRow where no row is stored
    nextUserId,   \* the table's auto-increment counter
    hashesEmail,  \* whether the installed token generator hashes the e-mail
    now,          \* the clock, in ticks
    mail,         \* one of the confirmation e-mails sent so far
    categories,   \* reviews_category table: the stored slugs
    genres,       \* reviews_genre table: the stored slugs
    titles,       \* reviews_title table: pk -> row, NoRow where none
    nextTitleId,
    reviews,      \* reviews_review table: pk -> row, NoRow where none
    nextReviewId,
    comments,     \* reviews_comment table: pk -> row, NoRow where none
    nextCommentId,
    pending,      \* worker -> the review create request it has validated
    resp          \* the response to the last request

userVars    == <<users, nextUserId, hashesEmail, now, mail>>
catalogVars == <<categories, genres, titles, nextTitleId>>
reviewVars  == <<reviews, nextReviewId, comments, nextCommentId, pending>>
vars        == <<userVars, catalogVars, reviewVars, resp>>

(***************************************************************************)
(* Bounds of the model.                                                    *)
(***************************************************************************)
MaxUsers    == 3   \* rows ever inserted into reviews_user
MaxTime     == 1   \* ticks of the clock
MaxTitles   == 1   \* rows ever inserted into reviews_title
MaxReviews  == 2   \* rows ever inserted into reviews_review
MaxComments == 1   \* rows ever inserted into reviews_comment

\* django.conf PASSWORD_RESET_TIMEOUT, in ticks of the model's clock.
PasswordResetTimeout == 0

NoRow  == [stored |-> FALSE]
Null   == "null"
Absent == "<absent>"     \* a key the request payload does not carry
Blank  == ""

(***************************************************************************)
(* reviews/models.py: UserRole, User.                                      *)
(***************************************************************************)
USER      == "user"
MODERATOR == "moderator"
ADMIN     == "admin"
Roles     == {USER, MODERATOR, ADMIN}

\* request.user of a request without credentials (AnonymousUser); every other
\* actor is the pk of the stored user its access token names.
Anonymous == 0

UserRow(name, email, role, super, bio) ==
    [stored |-> TRUE, username |-> name, email |-> email, role |-> role,
     is_superuser |-> super, bio |-> bio]

StoredUsers == {pk \in DOMAIN users : users[pk].stored}

Actors == StoredUsers \cup {Anonymous}

\* User.objects.filter(**fields): the pks whose row satisfies Match.
UserByName(name) == {pk \in StoredUsers : users[pk].username = name}
UserByEmail(email) == {pk \in StoredUsers : users[pk].email = email}

\* The table's constraints: unique username, unique email, and the check
\* constraint ~Q(username="me").  FALSE is django.db.IntegrityError.
UserRowAllowed(pk, row) ==
    /\ row.username # "me"
    /\ \A other \in StoredUsers \ {pk} :
          /\ users[other].username # row.username
          /\ users[other].email # row.email

\* User.save(): for the username "me" it returns (does not raise) a
\* ValidationError and writes nothing; otherwise Model.save() writes the row.
\* The result is <<table after, outcome>>.
UserSave(pk, row) ==
    IF row.username = "me"
    THEN <<users, "returned">>
    ELSE IF UserRowAllowed(pk, row)
         THEN <<[users EXCEPT ![pk] = row], "saved">>
         ELSE <<users, "IntegrityError">>

(***************************************************************************)
(* api/permissions.py                                                      *)
(***************************************************************************)
SafeMethods == {"GET", "HEAD", "OPTIONS"}

IsAuthenticated(actor) == actor # Anonymous

IsAdmin_staff(actor) ==
    /\ IsAuthenticated(actor)
    /\ (users[actor].role \in {ADMIN, MODERATOR} \/ users[actor].is_superuser)

IsAdmin(actor) ==
    /\ IsAuthenticated(actor)
    /\ (users[actor].role = ADMIN \/ users[actor].is_superuser)

IsAdminOrReadOnly(method, actor) ==
    method \in SafeMethods \/ IsAdmin(actor)

\* OwnerAdminModeratorOrReadOnly.has_permission
OwnerHasPermission(method, actor) ==
    method \in SafeMethods \/ IsAuthenticated(actor)

OwnerHasObjectPermission_authorOnly(method, actor, author) ==
    method \in SafeMethods \/ author = actor

\* OwnerAdminModeratorOrReadOnly.has_object_permission; it runs only after
\* has_permission let the request through.
OwnerHasObjectPermission(method, actor, author) ==
    IF method \in SafeMethods
    THEN TRUE
    ELSE \/ author = actor
         \/ users[actor].role \in {MODERATOR, ADMIN}
         \/ users[actor].is_superuser

\* rest_framework: a refused request is 401 without credentials, 403 with.
Denied(actor) == IF IsAuthenticated(actor) THEN 403 ELSE 401

\* The response of a request: the handler, the HTTP status, what the body
\* or the handler's result carries (a word and a number), and, for the
\* handlers of the catalog, the reviews and the comments, request.user.
RespBy(actor, op, status, note, num) ==
    [op |-> op, status |-> status, note |-> note, num |-> num, by |-> actor,
     rating |-> 0]

Resp(op, status, note, num) == RespBy(Anonymous, op, status, note, num)

(***************************************************************************)
(* django.contrib.auth.tokens.default_token_generator, as api/views.py     *)
(* uses it.  A token is a timestamp and a keyed hash of the user's pk,     *)
(* password, last_login, the timestamp and (in the Django releases that    *)
(* hash it) e-mail.  No handler of this API writes password or last_login, *)
(* so they are the same in every hash and are left out of the tuple.       *)
(***************************************************************************)
MakeHashValue_profile(pk, row, ts) ==
    <<pk, ts, IF hashesEmail THEN row.email ELSE Blank, row.username, row.bio,
      row.role>>

MakeHashValue(pk, row, ts) ==
    <<pk, ts, IF hashesEmail THEN row.email ELSE Blank>>

MakeToken(pk, row) ==
    [kind |-> "token", ts |-> now, hash |-> MakeHashValue(pk, row, now)]

BlankCode   == [kind |-> "blank", ts |-> 0, hash |-> <<>>]
GarbageCode == [kind |-> "garbage", ts |-> 0, hash |-> <<>>]

CheckToken_anyUser(pk, row, token) ==
    /\ token.kind = "token"
    /\ now - token.ts <= PasswordResetTimeout

CheckToken_noExpiry(pk, row, token) ==
    /\ token.kind = "token"
    /\ token.hash = MakeHashValue(pk, row, token.ts)

CheckToken(pk, row, token) ==
    /\ token.kind = "token"
    /\ token.hash = MakeHashValue(pk, row, token.ts)
    /\ now - token.ts <= PasswordResetTimeout

NoMail == [sent |-> FALSE]

\* The codes a client can present: nothing, something that is no token, or
\* the code of a confirmation e-mail.
Codes == {BlankCode, GarbageCode} \cup (IF mail.sent THEN {mail.code} ELSE {})

(***************************************************************************)
(* Request inputs.                                                         *)
(***************************************************************************)
BadEmail  == "not-an-email"
Usernames == {"root", "alice", "me"}
Emails    == {"root@x", "alice@x", BadEmail}
Bios      == {Blank, "bio"}

\* UserSerializer payloads (first_name and last_name are plain optional text
\* fields handled exactly like bio, which stands for the three).
UserPayload(name, email, role, bio) ==
    [username |-> name, email |-> email, role |-> role, bio |-> bio]

\* The profile updates of the sign-up specification: one field at a time.
AuthPatches ==
    {UserPayload("bob", Absent, Absent, Absent),
     UserPayload(Absent, "alice@x", Absent, Absent),
     UserPayload(Absent, Absent, Absent, "bio")}

\* The profile updates and the new accounts of the accounts specification.
PatchPayloads ==
    {UserPayload(n, Absent, Absent, Absent) : n \in {"alice", "me"}}
    \cup {UserPayload(Absent, "alice@x", Absent, Absent)}
    \cup {UserPayload(Absent, Absent, r, Absent) : r \in {MODERATOR, ADMIN, "king"}}
    \cup {UserPayload(Absent, Absent, ADMIN, "bio"),
          UserPayload("me", Absent, ADMIN, Absent)}

CreatePayloads ==
    {UserPayload(n, e, r, Absent) : n \in {"alice", "me"},
                                    e \in {"alice@x", "root@x"},
                                    r \in {Absent, ADMIN}}

(***************************************************************************)
(* api/serializers.py                                                      *)
(***************************************************************************)
\* SignUpSerializer.is_valid: EmailField, CharField, then validate().
SignUpValid(name, email) ==
    /\ email # BadEmail
    /\ name # Blank
    /\ name # "me"

\* TokenSerializer.is_valid: two required, non-blank CharFields.
TokenValid(name, code) == name # Blank /\ code.kind # "blank"

\* UserSerializer.is_valid for the row `pk` (0 on create): the model's field
\* validators and the UniqueValidators of username and email.
UserValid(pk, p, partial) ==
    /\ IF p.username = Absent THEN partial
       ELSE /\ p.username # Blank
            /\ UserByName(p.username) \subseteq {pk}
    /\ IF p.email = Absent THEN partial
       ELSE /\ p.email # BadEmail
            /\ UserByEmail(p.email) \subseteq {pk}
    /\ p.role \in Roles \cup {Absent}

\* ModelSerializer.update / create: the payload's keys set on the row.
Apply(row, p) ==
    [row EXCEPT !.username = IF p.username = Absent THEN @ ELSE p.username,
                !.email    = IF p.email = Absent THEN @ ELSE p.email,
                !.role     = IF p.role = Absent THEN @ ELSE p.role,
                !.bio      = IF p.bio = Absent THEN @ ELSE p.bio]

(***************************************************************************)
(* api/views.py: signup, token, UserViewSet.                               *)
(***************************************************************************)
\* The lookup of User.objects.get_or_create(username=..., email=...).
UserGet_never(name, email) == {}

UserGet(name, email) == UserByName(name) \cap UserByEmail(email)

\* POST /auth/signup/
signup(name, email) ==
    /\ UNCHANGED <<hashesEmail, now, catalogVars, reviewVars>>
    /\ IF ~SignUpValid(name, email)
       THEN /\ resp' = Resp("signup", 400, "invalid", 0)
            /\ UNCHANGED <<users, nextUserId, mail>>
       ELSE LET found == UserGet(name, email)
                row   == UserRow(name, email, USER, FALSE, Blank)
                saved == UserSave(nextUserId, row)
            IN IF found # {}
               THEN \* get_or_create fetched the row
                    LET pk == CHOOSE u \in found : TRUE
                    IN /\ UNCHANGED <<users, nextUserId>>
                       /\ mail' \in {mail, [sent |-> TRUE, to |-> email,
                                            code |-> MakeToken(pk, users[pk])]}
                       /\ resp' = Resp("signup", 200, "fetched", pk)
               ELSE IF saved[2] = "saved"
               THEN \* get_or_create inserted the row
                    /\ nextUserId <= MaxUsers
                    /\ users' = saved[1]
                    /\ nextUserId' = nextUserId + 1
                    /\ mail' \in {mail, [sent |-> TRUE, to |-> email,
                                         code |-> MakeToken(nextUserId, row)]}
                    /\ resp' = Resp("signup", 200, "created", nextUserId)
               ELSE \* except IntegrityError
                    /\ resp' = Resp("signup", 400, "IntegrityError", 0)
                    /\ UNCHANGED <<users, nextUserId, mail>>

\* POST /auth/token/
token(name, code) ==
    /\ UNCHANGED <<userVars, catalogVars, reviewVars>>
    /\ IF ~TokenValid(name, code)
       THEN resp' = Resp("token", 400, "invalid", 0)
       ELSE IF UserByName(name) = {}
       THEN resp' = Resp("token", 404, "not found", 0)
       ELSE LET pk == CHOOSE u \in UserByName(name) : TRUE
            IN IF CheckToken(pk, users[pk], code)
               THEN \* AccessToken.for_user(user): the identity claim is the pk
                    resp' = Resp("token", 200, "token", pk)
               ELSE resp' = Resp("token", 400, "bad code", 0)

\* GET /users/me/
get_self_user_page_GET(actor) ==
    /\ UNCHANGED <<userVars, catalogVars, reviewVars>>
    /\ IF ~IsAuthenticated(actor)
       THEN resp' = Resp("get_me", 401, "denied", 0)
       ELSE resp' = Resp("get_me", 200, users[actor].role, 0)

\* What PATCH /users/me/ saves: serializer.save(role=request.user.role, ...)
\* puts the actor's stored role over whatever the payload carries.
SelfSaveData_payloadRole(actor, p) == p

SelfSaveData(actor, p) == [p EXCEPT !.role = users[actor].role]

\* PATCH /users/me/
get_self_user_page_PATCH(actor, p) ==
    /\ UNCHANGED <<nextUserId, hashesEmail, now, mail, catalogVars, reviewVars>>
    /\ IF ~IsAuthenticated(actor)
       THEN /\ resp' = Resp("patch_me", 401, "denied", 0)
            /\ UNCHANGED users
       ELSE IF ~UserValid(actor, p, TRUE)
       THEN /\ resp' = Resp("patch_me", 400, "invalid", 0)
            /\ UNCHANGED users
       ELSE LET saved == UserSave(actor, Apply(users[actor], SelfSaveData(actor, p)))
            IN /\ users' = saved[1]
               /\ resp' = Resp("patch_me", IF saved[2] = "IntegrityError"
                                           THEN 500 ELSE 200, saved[2], 0)

\* POST /users/
UserCreate(actor, p) ==
    /\ UNCHANGED <<hashesEmail, now, mail, catalogVars, reviewVars>>
    /\ IF ~IsAdmin(actor)
       THEN /\ resp' = Resp("create_user", Denied(actor), "denied", 0)
            /\ UNCHANGED <<users, nextUserId>>
       ELSE IF ~UserValid(0, p, FALSE)
       THEN /\ resp' = Resp("create_user", 400, "invalid", 0)
            /\ UNCHANGED <<users, nextUserId>>
       ELSE LET row   == Apply(UserRow(Blank, Blank, USER, FALSE, Blank), p)
                saved == UserSave(nextUserId, row)
            IN /\ saved[2] = "saved" => nextUserId <= MaxUsers
               /\ users' = saved[1]
               /\ nextUserId' = IF saved[2] = "saved"
                                THEN nextUserId + 1 ELSE nextUserId
               /\ resp' = Resp("create_user", IF saved[2] = "IntegrityError"
                                              THEN 500 ELSE 201, saved[2], 0)

\* PATCH /users/{username}/ (PUT differs only in requiring every field)
UserUpdate(actor, name, p) ==
    /\ UNCHANGED <<nextUserId, hashesEmail, now, mail, catalogVars, reviewVars>>
    /\ IF ~IsAdmin(actor)
       THEN /\ resp' = Resp("update_user", Denied(actor), "denied", 0)
            /\ UNCHANGED users
       ELSE IF UserByName(name) = {}
       THEN /\ resp' = Resp("update_user", 404, "not found", 0)
            /\ UNCHANGED users
       ELSE LET pk == CHOOSE u \in UserByName(name) : TRUE
            IN IF ~UserValid(pk, p, TRUE)
               THEN /\ resp' = Resp("update_user", 400, "invalid", 0)
                    /\ UNCHANGED users
               ELSE LET saved == UserSave(pk, Apply(users[pk], p))
                    IN /\ users' = saved[1]
                       /\ resp' = Resp("update_user",
                                       IF saved[2] = "IntegrityError"
                                       THEN 500 ELSE 200, saved[2], 0)

\* DELETE /users/{username}/; the reviews and comments of the user go with
\* the row (on_delete=CASCADE), and so do the comments on those reviews.
UserDestroy(actor, name) ==
    /\ UNCHANGED <<nextUserId, hashesEmail, now, mail, catalogVars,
                   nextReviewId, nextCommentId, pending>>
    /\ IF ~IsAdmin(actor)
       THEN /\ resp' = Resp("delete_user", Denied(actor), "denied", 0)
            /\ UNCHANGED <<users, reviews, comments>>
       ELSE IF UserByName(name) = {}
       THEN /\ resp' = Resp("delete_user", 404, "not found", 0)
            /\ UNCHANGED <<users, reviews, comments>>
       ELSE LET pk   == CHOOSE u \in UserByName(name) : TRUE
                gone == {r \in DOMAIN reviews :
                            reviews[r].stored /\ reviews[r].author = pk}
            IN /\ users' = [users EXCEPT ![pk] = NoRow]
               /\ reviews' = [r \in DOMAIN reviews |->
                                 IF r \in gone THEN NoRow ELSE reviews[r]]
               /\ comments' = [c \in DOMAIN comments |->
                                 IF /\ comments[c].stored
                                    /\ (comments[c].author = pk
                                        \/ comments[c].review \in gone)
                                 THEN NoRow ELSE comments[c]]
               /\ resp' = Resp("delete_user", 204, "deleted", 0)

\* The clock advances.
Tick ==
    /\ now < MaxTime
    /\ now' = now + 1
    /\ UNCHANGED <<users, nextUserId, hashesEmail, mail, catalogVars,
                   reviewVars, resp>>

NoResp == Resp("none", 0, Blank, 0)

\* The accounts after `manage.py createsuperuser`: one superuser, whose role
\* is the model default.
InitAccounts ==
    /\ users = [pk \in 1..MaxUsers |->
                  IF pk = 1 THEN UserRow("root", "root@x", USER, TRUE, Blank)
                  ELSE NoRow]
    /\ nextUserId = 2
    /\ now = 0
    /\ mail = NoMail
    /\ categories = {} /\ genres = {}
    /\ titles = [t \in 1..MaxTitles |-> NoRow] /\ nextTitleId = 1
    /\ reviews = [r \in 1..MaxReviews |-> NoRow] /\ nextReviewId = 1
    /\ comments = [c \in 1..MaxComments |-> NoRow] /\ nextCommentId = 1
    /\ pending = <<>>
    /\ resp = NoResp

TargetNames == Usernames \ {"me"}   \* /users/me/ routes to get_self_user_page

NextAuth ==
    \/ \E n \in {"root", "alice", "me"}, e \in Emails : signup(n, e)
    \/ \E n \in {"root", "alice", "bob", Blank}, c \in Codes : token(n, c)
    \/ \E a \in Actors, p \in AuthPatches : get_self_user_page_PATCH(a, p)
    \/ \E a \in Actors, n \in {"root", "alice"}, p \in AuthPatches :
          UserUpdate(a, n, p)
    \/ Tick

InitAuth == InitAccounts /\ hashesEmail \in BOOLEAN

SpecAuth == InitAuth /\ [][NextAuth]_vars

NextUsers ==
    \/ \E n \in Usernames, e \in Emails : signup(n, e) /\ mail' = mail
    \/ \E a \in Actors : get_self_user_page_GET(a)
    \/ \E a \in Actors, p \in PatchPayloads : get_self_user_page_PATCH(a, p)
    \/ \E a \in Actors, p \in CreatePayloads : UserCreate(a, p)
    \/ \E a \in Actors, n \in TargetNames, p \in PatchPayloads :
          UserUpdate(a, n, p)
    \/ \E a \in Actors, n \in TargetNames : UserDestroy(a, n)

InitUsers == InitAccounts /\ hashesEmail = TRUE

SpecUsers == InitUsers /\ [][NextUsers]_vars

(***************************************************************************)
(* reviews/models.py: Category, Genre, Title, GenreTitle, Review, Comment. *)
(* A category or genre is its slug (its name is carried along and read by  *)
(* no rule); a title is its category and its genres (name, year and        *)
(* description are plain fields, of which the payload's year can fail      *)
(* validation); a review is title, author and score; a comment is review,  *)
(* author and text.                                                        *)
(***************************************************************************)
TitleRow(category, genre) ==
    [stored |-> TRUE, category |-> category, genre |-> genre]

ReviewRow(title, author, score) ==
    [stored |-> TRUE, title |-> title, author |-> author, score |-> score]

CommentRow(review, author, text) ==
    [stored |-> TRUE, review |-> review, author |-> author, text |-> text]

StoredTitles   == {t \in DOMAIN titles : titles[t].stored}
StoredReviews  == {r \in DOMAIN reviews : reviews[r].stored}
StoredComments == {c \in DOMAIN comments : comments[c].stored}

\* title.reviews: the related manager of Review.title.
ReviewsOf(t) == {r \in StoredReviews : reviews[r].title = t}

\* review.comments: the related manager of Comment.review.
CommentsOf(r) == {c \in StoredComments : comments[c].review = r}

\* on_delete=CASCADE from Review to Comment: the comments left once the
\* reviews `gone` are deleted.
CommentsWithout(gone) ==
    [c \in DOMAIN comments |->
        IF comments[c].stored /\ comments[c].review \in gone
        THEN NoRow ELSE comments[c]]

ReviewsWithout(gone) ==
    [r \in DOMAIN reviews |-> IF r \in gone THEN NoRow ELSE reviews[r]]

(***************************************************************************)
(* TitleViewSet.queryset and ReadTitleSerializer.rating.                   *)
(***************************************************************************)
RECURSIVE SumScores(_)
SumScores(rs) ==
    IF rs = {} THEN 0
    ELSE LET r == CHOOSE x \in rs : TRUE
         IN reviews[r].score + SumScores(rs \ {r})

\* Avg("reviews__score"): NULL over no rows, else the quotient sum / count,
\* kept as the pair <<sum, count>>.
Avg(t) ==
    IF ReviewsOf(t) = {} THEN <<>>
    ELSE <<SumScores(ReviewsOf(t)), Cardinality(ReviewsOf(t))>>

\* serializers.IntegerField.to_representation: int(value), which cuts the
\* fraction off; None is passed through as null.
IntegerField_rounded(avg) ==
    IF avg = <<>> THEN [null |-> TRUE, value |-> 0]
    ELSE [null |-> FALSE, value |-> (2 * avg[1] + avg[2]) \div (2 * avg[2])]

IntegerField_zeroForNone(avg) ==
    IF avg = <<>> THEN [null |-> FALSE, value |-> 0]
    ELSE [null |-> FALSE, value |-> avg[1] \div avg[2]]

IntegerField(avg) ==
    IF avg = <<>> THEN [null |-> TRUE, value |-> 0]
    ELSE [null |-> FALSE, value |-> avg[1] \div avg[2]]

Rating(t) == IntegerField(Avg(t))

(***************************************************************************)
(* api/views.py: CategoryViewSet, GenreViewSet, TitleViewSet.              *)
(***************************************************************************)
CategorySlugs == {"films", "books"}
GenreSlugs    == {"drama"}
NoSuchSlug    == "nosuch"

\* CategoryViewSet / GenreViewSet list: GET /categories/, GET /genres/
CategoryGenreList(kind, actor) ==
    /\ UNCHANGED <<userVars, catalogVars, reviewVars>>
    /\ resp' = RespBy(actor, "list_" \o kind,
                    IF IsAdminOrReadOnly("GET", actor) THEN 200 ELSE Denied(actor),
                    Blank, 0)

\* CategoryViewSet / GenreViewSet create: POST /categories/, POST /genres/
CategoryGenreCreate(kind, actor, slug) ==
    /\ UNCHANGED <<userVars, titles, nextTitleId, reviewVars>>
    /\ IF ~IsAdminOrReadOnly("POST", actor)
       THEN /\ resp' = RespBy(actor, "create_" \o kind, Denied(actor), "denied", 0)
            /\ UNCHANGED <<categories, genres>>
       ELSE IF slug \in (IF kind = "category" THEN categories ELSE genres)
       THEN \* the UniqueValidator of slug
            /\ resp' = RespBy(actor, "create_" \o kind, 400, "invalid", 0)
            /\ UNCHANGED <<categories, genres>>
       ELSE /\ resp' = RespBy(actor, "create_" \o kind, 201, "saved", 0)
            /\ categories' = IF kind = "category"
                             THEN categories \cup {slug} ELSE categories
            /\ genres' = IF kind = "genre" THEN genres \cup {slug} ELSE genres

OnDeleteCategory_cascade(row, slug) ==
    IF row.category = slug THEN NoRow ELSE row

\* Title.category: ForeignKey(Category, on_delete=SET_NULL, null=True); what
\* the deletion of the category `slug` makes of a stored title.
OnDeleteCategory(row, slug) ==
    [row EXCEPT !.category = IF @ = slug THEN Null ELSE @]

\* CategoryViewSet / GenreViewSet destroy: DELETE /categories/{slug}/.
\* Title.category is on_delete=SET_NULL; GenreTitle.genre is SET_NULL, so
\* the title loses the genre.
CategoryGenreDestroy(kind, actor, slug) ==
    /\ UNCHANGED <<userVars, nextTitleId, reviewVars>>
    /\ IF ~IsAdminOrReadOnly("DELETE", actor)
       THEN /\ resp' = RespBy(actor, "delete_" \o kind, Denied(actor), "denied", 0)
            /\ UNCHANGED <<categories, genres, titles>>
       ELSE IF slug \notin (IF kind = "category" THEN categories ELSE genres)
       THEN /\ resp' = RespBy(actor, "delete_" \o kind, 404, "not found", 0)
            /\ UNCHANGED <<categories, genres, titles>>
       ELSE /\ resp' = RespBy(actor, "delete_" \o kind, 204, "deleted", 0)
            /\ categories' = IF kind = "category"
                             THEN categories \ {slug} ELSE categories
            /\ genres' = IF kind = "genre" THEN genres \ {slug} ELSE genres
            /\ titles' = [t \in DOMAIN titles |->
                  IF ~titles[t].stored THEN titles[t]
                  ELSE IF kind = "category"
                  THEN OnDeleteCategory(titles[t], slug)
                  ELSE [titles[t] EXCEPT !.genre = @ \ {slug}]]

\* GET, PUT or PATCH /categories/{slug}/ (or /genres/{slug}/): the view set
\* has no retrieve and no update; the permission check comes first.
CategoryGenreNotAllowed(kind, actor, method) ==
    /\ UNCHANGED <<userVars, catalogVars, reviewVars>>
    /\ resp' = RespBy(actor, "other_" \o kind,
                    IF IsAdminOrReadOnly(method, actor) THEN 405
                    ELSE Denied(actor), method, 0)

\* WriteTitleSerializer payloads.
TitlePayload(category, has_genre, genre, year_ok) ==
    [category |-> category, has_genre |-> has_genre, genre |-> genre,
     year_ok |-> year_ok]

TitlePayloads ==
    {TitlePayload("films", TRUE, {"drama"}, TRUE),
     TitlePayload("books", TRUE, {}, TRUE),
     TitlePayload(Absent, TRUE, {"drama"}, TRUE),
     TitlePayload("books", FALSE, {}, TRUE),
     TitlePayload("films", TRUE, {}, FALSE)}

\* WriteTitleSerializer.is_valid: category and genre are slugs of stored
\* rows, both required unless the update is partial; the validators of year.
TitleValid(p, partial) ==
    /\ IF p.category = Absent THEN partial ELSE p.category \in categories
    /\ IF p.has_genre THEN p.genre \subseteq genres ELSE partial
    /\ p.year_ok

TitleApply(row, p) ==
    [row EXCEPT !.category = IF p.category = Absent THEN @ ELSE p.category,
                !.genre    = IF p.has_genre THEN p.genre ELSE @]

\* GET /titles/
TitleList(actor) ==
    /\ UNCHANGED <<userVars, catalogVars, reviewVars>>
    /\ resp' = RespBy(actor, "list_title",
                    IF IsAdminOrReadOnly("GET", actor) THEN 200 ELSE Denied(actor),
                    Blank, 0)

\* GET /titles/{id}/: ReadTitleSerializer over the annotated queryset.
TitleRetrieve(actor, id) ==
    /\ UNCHANGED <<userVars, catalogVars, reviewVars>>
    /\ IF ~IsAdminOrReadOnly("GET", actor)
       THEN resp' = RespBy(actor, "retrieve_title", Denied(actor), "denied", 0)
       ELSE IF id \notin StoredTitles
       THEN resp' = RespBy(actor, "retrieve_title", 404, "not found", 0)
       ELSE resp' = [RespBy(actor, "retrieve_title", 200,
                            IF Rating(id).null THEN "null" ELSE "rating", id)
                        EXCEPT !.rating = Rating(id).value]

\* POST /titles/
TitleCreate(actor, p) ==
    /\ UNCHANGED <<userVars, categories, genres, reviewVars>>
    /\ IF ~IsAdminOrReadOnly("POST", actor)
       THEN /\ resp' = RespBy(actor, "create_title", Denied(actor), "denied", 0)
            /\ UNCHANGED <<titles, nextTitleId>>
       ELSE IF ~TitleValid(p, FALSE)
       THEN /\ resp' = RespBy(actor, "create_title", 400, "invalid", 0)
            /\ UNCHANGED <<titles, nextTitleId>>
       ELSE /\ nextTitleId <= MaxTitles
            /\ titles' = [titles EXCEPT ![nextTitleId] =
                             TitleRow(p.category, p.genre)]
            /\ nextTitleId' = nextTitleId + 1
            /\ resp' = RespBy(actor, "create_title", 201, "saved", 0)

\* PATCH /titles/{id}/ (PUT differs only in requiring every field)
TitleUpdate(actor, id, p) ==
    /\ UNCHANGED <<userVars, categories, genres, nextTitleId, reviewVars>>
    /\ IF ~IsAdminOrReadOnly("PATCH", actor)
       THEN /\ resp' = RespBy(actor, "update_title", Denied(actor), "denied", 0)
            /\ UNCHANGED titles
       ELSE IF id \notin StoredTitles
       THEN /\ resp' = RespBy(actor, "update_title", 404, "not found", 0)
            /\ UNCHANGED titles
       ELSE IF ~TitleValid(p, TRUE)
       THEN /\ resp' = RespBy(actor, "update_title", 400, "invalid", 0)
            /\ UNCHANGED titles
       ELSE /\ titles' = [titles EXCEPT ![id] = TitleApply(@, p)]
            /\ resp' = RespBy(actor, "update_title", 200, "saved", 0)

\* DELETE /titles/{id}/: the reviews of the title and their comments go
\* with it (on_delete=CASCADE).
TitleDestroy(actor, id) ==
    /\ UNCHANGED <<userVars, categories, genres, nextTitleId, nextReviewId,
                   nextCommentId, pending>>
    /\ IF ~IsAdminOrReadOnly("DELETE", actor)
       THEN /\ resp' = RespBy(actor, "delete_title", Denied(actor), "denied", 0)
            /\ UNCHANGED <<titles, reviews, comments>>
       ELSE IF id \notin StoredTitles
       THEN /\ resp' = RespBy(actor, "delete_title", 404, "not found", 0)
            /\ UNCHANGED <<titles, reviews, comments>>
       ELSE /\ titles' = [titles EXCEPT ![id] = NoRow]
            /\ reviews' = ReviewsWithout(ReviewsOf(id))
            /\ comments' = CommentsWithout(ReviewsOf(id))
            /\ resp' = RespBy(actor, "delete_title", 204, "deleted", 0)

(***************************************************************************)
(* api/views.py: ReviewViewSet with ReviewSerializer.                      *)
(***************************************************************************)
Idle == [busy |-> FALSE]

\* ReviewSerializer.score: IntegerField(max_value=10, min_value=1).
MinScore == 1
MaxScore == 10

\* ReviewSerializer.validate: on POST, the author has no review of the title.
ReviewValid(method, actor, title, score) ==
    /\ score >= MinScore /\ score <= MaxScore
    /\ method = "POST" =>
          ~\E r \in StoredReviews :
               reviews[r].title = title /\ reviews[r].author = actor

\* Review.Meta.constraints: UniqueConstraint(fields=("author", "title")).
\* FALSE is django.db.IntegrityError on the insert.
ReviewInsertAllowed_unconstrained(author, title) == TRUE

ReviewInsertAllowed(author, title) ==
    ~\E r \in StoredReviews :
         reviews[r].title = title /\ reviews[r].author = author

\* POST /titles/{title_id}/reviews/, up to the end of serializer.is_valid:
\* the permission check, the field validation and validate().  A request
\* that passes is held by its worker until it runs perform_create.
ReviewCreateBegin(w, actor, title, score) ==
    /\ ~pending[w].busy
    /\ UNCHANGED <<userVars, catalogVars, reviews, nextReviewId, comments,
                   nextCommentId>>
    /\ IF ~OwnerHasPermission("POST", actor)
       THEN /\ resp' = RespBy(actor, "create_review", Denied(actor), "denied", title)
            /\ UNCHANGED pending
       ELSE IF ~ReviewValid("POST", actor, title, score)
       THEN /\ resp' = RespBy(actor, "create_review", 400, "invalid", title)
            /\ UNCHANGED pending
       ELSE /\ resp' = RespBy(actor, "create_review", 0, "validated", title)
            /\ pending' = [pending EXCEPT ![w] =
                  [busy |-> TRUE, actor |-> actor, title |-> title,
                   score |-> score]]

\* The rest of the request: perform_create looks the title up and saves.
ReviewCreateFinish(w) ==
    /\ pending[w].busy
    /\ pending' = [pending EXCEPT ![w] = Idle]
    /\ UNCHANGED <<userVars, catalogVars, comments, nextCommentId>>
    /\ LET actor == pending[w].actor
           title == pending[w].title
       IN IF title \notin StoredTitles
          THEN /\ resp' = RespBy(actor, "create_review", 404, "not found", title)
               /\ UNCHANGED <<reviews, nextReviewId>>
          ELSE IF ~ReviewInsertAllowed(actor, title)
          THEN /\ resp' = RespBy(actor, "create_review", 500, "IntegrityError", title)
               /\ UNCHANGED <<reviews, nextReviewId>>
          ELSE /\ nextReviewId <= MaxReviews
               /\ reviews' = [reviews EXCEPT ![nextReviewId] =
                     ReviewRow(title, actor, pending[w].score)]
               /\ nextReviewId' = nextReviewId + 1
               /\ resp' = RespBy(actor, "create_review", 201, "saved", title)

\* ReviewViewSet.get_queryset, then get_object: the review `id` among the
\* reviews of the title `title`.
ReviewFound(title, id) ==
    /\ title \in StoredTitles
    /\ id \in ReviewsOf(title)

\* GET /titles/{title_id}/reviews/
ReviewList(actor, title) ==
    /\ UNCHANGED <<userVars, catalogVars, reviewVars>>
    /\ resp' = RespBy(actor, "list_review",
                      IF title \in StoredTitles THEN 200 ELSE 404, Blank, 0)

\* GET /titles/{title_id}/reviews/{id}/
ReviewRetrieve(actor, title, id) ==
    /\ UNCHANGED <<userVars, catalogVars, reviewVars>>
    /\ resp' = RespBy(actor, "retrieve_review",
                      IF ReviewFound(title, id) THEN 200 ELSE 404, Blank, id)

\* PATCH /titles/{title_id}/reviews/{id}/ (PUT likewise)
ReviewUpdate(actor, title, id, score) ==
    /\ UNCHANGED <<userVars, catalogVars, nextReviewId, comments,
                   nextCommentId, pending>>
    /\ IF ~OwnerHasPermission("PATCH", actor)
       THEN /\ resp' = RespBy(actor, "update_review", Denied(actor), "denied", id)
            /\ UNCHANGED reviews
       ELSE IF ~ReviewFound(title, id)
       THEN /\ resp' = RespBy(actor, "update_review", 404, "not found", id)
            /\ UNCHANGED reviews
       ELSE IF ~OwnerHasObjectPermission("PATCH", actor, reviews[id].author)
       THEN /\ resp' = RespBy(actor, "update_review", Denied(actor), "denied", id)
            /\ UNCHANGED reviews
       ELSE IF ~ReviewValid("PATCH", actor, title, score)
       THEN /\ resp' = RespBy(actor, "update_review", 400, "invalid", id)
            /\ UNCHANGED reviews
       ELSE /\ reviews' = [reviews EXCEPT ![id].score = score]
            /\ resp' = RespBy(actor, "update_review", 200, "saved", id)

\* DELETE /titles/{title_id}/reviews/{id}/
ReviewDestroy(actor, title, id) ==
    /\ UNCHANGED <<userVars, catalogVars, nextReviewId, nextCommentId, pending>>
    /\ IF ~OwnerHasPermission("DELETE", actor)
       THEN /\ resp' = RespBy(actor, "delete_review", Denied(actor), "denied", id)
            /\ UNCHANGED <<reviews, comments>>
       ELSE IF ~ReviewFound(title, id)
       THEN /\ resp' = RespBy(actor, "delete_review", 404, "not found", id)
            /\ UNCHANGED <<reviews, comments>>
       ELSE IF ~OwnerHasObjectPermission("DELETE", actor, reviews[id].author)
       THEN /\ resp' = RespBy(actor, "delete_review", Denied(actor), "denied", id)
            /\ UNCHANGED <<reviews, comments>>
       ELSE /\ reviews' = ReviewsWithout({id})
            /\ comments' = CommentsWithout({id})
            /\ resp' = RespBy(actor, "delete_review", 204, "deleted", id)

(***************************************************************************)
(* api/views.py: CommentViewSet with CommentSerializer.  The view looks    *)
(* the review up by review_id alone; title_id is a URL keyword argument    *)
(* that no method of the view reads.                                       *)
(***************************************************************************)
\* CommentSerializer: text is the one writable field; a blank one is
\* refused.
CommentValid(text) == text # Blank

\* CommentViewSet.get_queryset, then get_object: the comment `id` among
\* the comments of the review `review`.
CommentFound(review, id) ==
    /\ review \in StoredReviews
    /\ id \in CommentsOf(review)

\* GET /titles/{title_id}/reviews/{review_id}/comments/
CommentList(actor, title, review) ==
    /\ UNCHANGED <<userVars, catalogVars, reviewVars>>
    /\ resp' = RespBy(actor, "list_comment",
                      IF review \in StoredReviews THEN 200 ELSE 404, Blank, 0)

\* GET /titles/{title_id}/reviews/{review_id}/comments/{id}/
CommentRetrieve(actor, title, review, id) ==
    /\ UNCHANGED <<userVars, catalogVars, reviewVars>>
    /\ resp' = RespBy(actor, "retrieve_comment",
                      IF CommentFound(review, id) THEN 200 ELSE 404, Blank, id)

\* POST /titles/{title_id}/reviews/{review_id}/comments/
CommentCreate(actor, title, review, text) ==
    /\ UNCHANGED <<userVars, catalogVars, reviews, nextReviewId, pending>>
    /\ IF ~OwnerHasPermission("POST", actor)
       THEN /\ resp' = RespBy(actor, "create_comment", Denied(actor), "denied", 0)
            /\ UNCHANGED <<comments, nextCommentId>>
       ELSE IF ~CommentValid(text)
       THEN /\ resp' = RespBy(actor, "create_comment", 400, "invalid", 0)
            /\ UNCHANGED <<comments, nextCommentId>>
       ELSE IF review \notin StoredReviews
       THEN /\ resp' = RespBy(actor, "create_comment", 404, "not found", 0)
            /\ UNCHANGED <<comments, nextCommentId>>
       ELSE /\ nextCommentId <= MaxComments
            /\ comments' = [comments EXCEPT ![nextCommentId] =
                  CommentRow(review, actor, text)]
            /\ nextCommentId' = nextCommentId + 1
            /\ resp' = RespBy(actor, "create_comment", 201, "saved", nextCommentId)

\* PATCH /titles/{title_id}/reviews/{review_id}/comments/{id}/ (PUT likewise)
CommentUpdate(actor, title, review, id, text) ==
    /\ UNCHANGED <<userVars, catalogVars, reviews, nextReviewId,
                   nextCommentId, pending>>
    /\ IF ~OwnerHasPermission("PATCH", actor)
       THEN /\ resp' = RespBy(actor, "update_comment", Denied(actor), "denied", id)
            /\ UNCHANGED comments
       ELSE IF ~CommentFound(review, id)
       THEN /\ resp' = RespBy(actor, "update_comment", 404, "not found", id)
            /\ UNCHANGED comments
       ELSE IF ~OwnerHasObjectPermission("PATCH", actor, comments[id].author)
       THEN /\ resp' = RespBy(actor, "update_comment", Denied(actor), "denied", id)
            /\ UNCHANGED comments
       ELSE IF ~CommentValid(text)
       THEN /\ resp' = RespBy(actor, "update_comment", 400, "invalid", id)
            /\ UNCHANGED comments
       ELSE /\ comments' = [comments EXCEPT ![id].text = text]
            /\ resp' = RespBy(actor, "update_comment", 200, "saved", id)

\* DELETE /titles/{title_id}/reviews/{review_id}/comments/{id}/
CommentDestroy(actor, title, review, id) ==
    /\ UNCHANGED <<userVars, catalogVars, reviews, nextReviewId,
                   nextCommentId, pending>>
    /\ IF ~OwnerHasPermission("DELETE", actor)
       THEN /\ resp' = RespBy(actor, "delete_comment", Denied(actor), "denied", id)
            /\ UNCHANGED comments
       ELSE IF ~CommentFound(review, id)
       THEN /\ resp' = RespBy(actor, "delete_comment", 404, "not found", id)
            /\ UNCHANGED comments
       ELSE IF ~OwnerHasObjectPermission("DELETE", actor, comments[id].author)
       THEN /\ resp' = RespBy(actor, "delete_comment", Denied(actor), "denied", id)
            /\ UNCHANGED comments
       ELSE /\ comments' = [comments EXCEPT ![id] = NoRow]
            /\ resp' = RespBy(actor, "delete_comment", 204, "deleted", id)

\* The accounts of the catalog and feedback specifications: the superuser
\* (whose role is the default), an admin, a moderator and a plain user.
Root == 1
Adm  == 2
Mod  == 3
Usr  == 4

Staff ==
    <<UserRow("root", "root@x", USER, TRUE, Blank),
      UserRow("adm", "adm@x", ADMIN, FALSE, Blank),
      UserRow("mod", "mod@x", MODERATOR, FALSE, Blank),
      UserRow("alice", "alice@x", USER, FALSE, Blank)>>

InitCatalog ==
    /\ users = Staff /\ nextUserId = Len(Staff) + 1
    /\ hashesEmail = TRUE /\ now = 0 /\ mail = NoMail
    /\ categories = {} /\ genres = {}
    /\ titles = [t \in 1..MaxTitles |-> NoRow] /\ nextTitleId = 1
    /\ reviews = [r \in 1..MaxReviews |-> NoRow] /\ nextReviewId = 1
    /\ comments = [c \in 1..MaxComments |-> NoRow] /\ nextCommentId = 1
    /\ pending = <<>>
    /\ resp = NoResp

Kinds == {"category", "genre"}
SlugsOf(kind) == IF kind = "category" THEN CategorySlugs ELSE GenreSlugs
TitleIds == 1..(MaxTitles + 1)

NextCatalog ==
    \/ \E k \in Kinds, a \in Actors : CategoryGenreList(k, a)
    \/ \E k \in Kinds, a \in Actors : \E g \in SlugsOf(k) :
          CategoryGenreCreate(k, a, g)
    \/ \E k \in Kinds, a \in Actors : \E g \in SlugsOf(k) :
          CategoryGenreDestroy(k, a, g)
    \/ \E k \in Kinds, a \in Actors, m \in {"GET", "PATCH"} :
          CategoryGenreNotAllowed(k, a, m)
    \/ \E a \in Actors : TitleList(a)
    \/ \E a \in Actors, t \in TitleIds : TitleRetrieve(a, t)
    \/ \E a \in Actors, p \in TitlePayloads : TitleCreate(a, p)
    \/ \E a \in Actors, t \in TitleIds, p \in TitlePayloads :
          TitleUpdate(a, t, p)
    \/ \E a \in Actors, t \in TitleIds : TitleDestroy(a, t)

SpecCatalog == InitCatalog /\ [][NextCatalog]_vars

\* The state the review specifications start in: two critics, a plain
\* user and a moderator, and two titles without a category.
Critics ==
    <<UserRow("alice", "alice@x", USER, FALSE, Blank),
      UserRow("mod", "mod@x", MODERATOR, FALSE, Blank)>>

Library == <<TitleRow(Null, {}), TitleRow(Null, {})>>

Workers == {"w1", "w2"}

InitReviews ==
    /\ users = Critics /\ nextUserId = Len(Critics) + 1
    /\ hashesEmail = TRUE /\ now = 0 /\ mail = NoMail
    /\ categories = {} /\ genres = {}
    /\ titles = Library /\ nextTitleId = Len(Library) + 1
    /\ reviews = [r \in 1..MaxReviews |-> NoRow] /\ nextReviewId = 1
    /\ comments = [c \in 1..MaxComments |-> NoRow] /\ nextCommentId = 1
    /\ pending = [w \in Workers |-> Idle]
    /\ resp = NoResp

ScoreInputs == {1, 2, 11}

\* Reviews are created by any actor, in two steps; they are edited and
\* deleted by their authors, under their own URL.
NextReviews ==
    \/ \E w \in Workers, a \in Actors, t \in StoredTitles, s \in ScoreInputs :
          ReviewCreateBegin(w, a, t, s)
    \/ \E w \in Workers : ReviewCreateFinish(w)
    \/ \E r \in StoredReviews, s \in ScoreInputs :
          ReviewUpdate(reviews[r].author, reviews[r].title, r, s)
    \/ \E r \in StoredReviews :
          ReviewDestroy(reviews[r].author, reviews[r].title, r)
    \/ \E t \in StoredTitles : TitleRetrieve(Anonymous, t)

SpecReviews == InitReviews /\ [][NextReviews]_vars

\* The state the feedback specifications start in: the staff accounts,
\* two titles, and a review of the first title by the plain user and one
\* of the second by the moderator.
Shelf == <<ReviewRow(1, Usr, 5), ReviewRow(2, Mod, 7)>>

InitShelf ==
    /\ users = Staff /\ nextUserId = Len(Staff) + 1
    /\ hashesEmail = TRUE /\ now = 0 /\ mail = NoMail
    /\ categories = {} /\ genres = {}
    /\ titles = Library /\ nextTitleId = Len(Library) + 1
    /\ reviews = [r \in 1..MaxReviews |->
                    IF r <= Len(Shelf) THEN Shelf[r] ELSE NoRow]
    /\ nextReviewId = Len(Shelf) + 1
    /\ comments = [c \in 1..MaxComments |-> NoRow] /\ nextCommentId = 1
    /\ resp = NoResp

InitFeedback == InitShelf /\ pending = <<>>

Commenters  == {Root, Adm, Mod, Usr}
NewScores   == {6, 11}
NewTexts    == {"nice"}
EditedTexts == {"fine", Blank}

\* The URL of a stored review and of a stored comment.
TitleOf(r)  == reviews[r].title
ReviewOf(c) == comments[c].review

\* Every actor edits and deletes every stored review and comment, each
\* under its own URL; every account comments.
NextFeedback ==
    \/ \E a \in Actors, r \in StoredReviews, s \in NewScores :
          ReviewUpdate(a, TitleOf(r), r, s)
    \/ \E a \in Actors, r \in StoredReviews :
          ReviewDestroy(a, TitleOf(r), r)
    \/ \E a \in Commenters, r \in StoredReviews, x \in NewTexts :
          CommentCreate(a, TitleOf(r), r, x)
    \/ \E a \in Actors, c \in StoredComments, x \in EditedTexts :
          CommentUpdate(a, TitleOf(ReviewOf(c)), ReviewOf(c), c, x)
    \/ \E a \in Actors, c \in StoredComments :
          CommentDestroy(a, TitleOf(ReviewOf(c)), ReviewOf(c), c)

SpecFeedback == InitFeedback /\ [][NextFeedback]_vars

\* The ids a URL names: a stored title and one that is not stored, the
\* stored reviews and comments and one id past them.
UrlTitles   == {1, Len(Library) + 1}
UrlReviews  == 1..(Len(Shelf) + 1)
UrlComments == 1..(MaxComments + 1)
Visitors    == {Anonymous, Usr}
Clerk       == "w1"

InitNesting == InitShelf /\ pending = [w \in {Clerk} |-> Idle]

\* An anonymous visitor and the plain user send every request of the
\* nested routes, under URLs whose ids are stored or not.
NextNesting ==
    \/ \E a \in Visitors, t \in UrlTitles : ReviewList(a, t)
    \/ \E a \in Visitors, t \in UrlTitles, r \in UrlReviews :
          ReviewRetrieve(a, t, r)
    \/ \E a \in Visitors, t \in UrlTitles, s \in NewScores :
          ReviewCreateBegin(Clerk, a, t, s)
    \/ ReviewCreateFinish(Clerk)
    \/ \E a \in Visitors, t \in UrlTitles, r \in UrlReviews, s \in NewScores :
          ReviewUpdate(a, t, r, s)
    \/ \E a \in Visitors, t \in UrlTitles, r \in UrlReviews :
          ReviewDestroy(a, t, r)
    \/ \E a \in Visitors, t \in UrlTitles, r \in UrlReviews :
          CommentList(a, t, r)
    \/ \E a \in Visitors, t \in UrlTitles, r \in UrlReviews, c \in UrlComments :
          CommentRetrieve(a, t, r, c)
    \/ \E a \in Visitors, t \in UrlTitles, r \in UrlReviews,
          x \in NewTexts \cup {Blank} : CommentCreate(a, t, r, x)
    \/ \E a \in Visitors, t \in UrlTitles, r \in UrlReviews, c \in UrlComments,
          x \in EditedTexts : CommentUpdate(a, t, r, c, x)
    \/ \E a \in Visitors, t \in UrlTitles, r \in UrlReviews, c \in UrlComments :
          CommentDestroy(a, t, r, c)

SpecNesting == InitNesting /\ [][NextNesting]_vars

\* The state the archive specification starts in: the staff accounts,
\* every category and genre, two titles of the first category, a review
\* of each and a comment on the first review.
Catalogue == <<TitleRow("films", {"drama"}), TitleRow("films", {})>>

Remark == CommentRow(1, Mod, "nice")

InitArchive ==
    /\ users = Staff /\ nextUserId = Len(Staff) + 1
    /\ hashesEmail = TRUE /\ now = 0 /\ mail = NoMail
    /\ categories = CategorySlugs /\ genres = GenreSlugs
    /\ titles = Catalogue /\ nextTitleId = Len(Catalogue) + 1
    /\ reviews = [r \in 1..MaxReviews |->
                    IF r <= Len(Shelf) THEN Shelf[r] ELSE NoRow]
    /\ nextReviewId = Len(Shelf) + 1
    /\ comments = [c \in 1..MaxComments |-> IF c = 1 THEN Remark ELSE NoRow]
    /\ nextCommentId = 2
    /\ pending = <<>>
    /\ resp = NoResp

Curators == {Anonymous, Adm, Usr}

\* An anonymous visitor, the admin and the plain user send the writes of
\* the catalog against titles that carry reviews and comments.
NextArchive ==
    \/ \E k \in Kinds, a \in Curators :
          \E g \in SlugsOf(k) : CategoryGenreCreate(k, a, g)
    \/ \E k \in Kinds, a \in Curators :
          \E g \in SlugsOf(k) : CategoryGenreDestroy(k, a, g)
    \/ \E a \in Curators, p \in TitlePayloads : TitleCreate(a, p)
    \/ \E a \in Curators, t \in 1..(Len(Catalogue) + 1), p \in TitlePayloads :
          TitleUpdate(a, t, p)
    \/ \E a \in Curators, t \in 1..(Len(Catalogue) + 1) : TitleDestroy(a, t)

SpecArchive == InitArchive /\ [][NextArchive]_vars

(***************************************************************************)
(* Properties of the accounts: /auth/signup/, /auth/token/, /users/.       *)
(***************************************************************************)
NamedBy(name) == CHOOSE u \in UserByName(name) : TRUE

\* C4: an update through PATCH /users/me/ leaves the stored role of every
\* user, the actor included, as it was, whatever role the payload carries,
\* and changes no row but the actor's.
C4_SelfUpdateKeepsRole ==
    [][resp'.op = "patch_me" =>
       \A a \in Actors, p \in PatchPayloads :
          get_self_user_page_PATCH(a, p) =>
             \A pk \in DOMAIN users :
                /\ users'[pk].stored = users[pk].stored
                /\ users[pk].stored => users'[pk].role = users[pk].role
                /\ pk # a => users'[pk] = users[pk]]_vars

\* C4 happened: a self update that asked for the admin role was accepted and
\* saved (the one payload that sets a bio asks for the admin role with it,
\* and through /users/{username}/ it would have set the role), and no stored
\* user has the admin role.
C4_Witness ==
    /\ resp.op = "patch_me" /\ resp.status = 200 /\ resp.note = "saved"
    /\ \E pk \in StoredUsers : users[pk].bio = "bio"
    /\ \A pk \in StoredUsers : users[pk].role = USER

NoUserNamedMe == \A pk \in StoredUsers : users[pk].username # "me"

\* C5: every request that would store a user named "me" (signup, POST
\* /users/, PATCH /users/{username}/, PATCH /users/me/) answers with a
\* validation error (400), and no stored user is ever named "me".
C5_ReservedNameIsValidationError ==
    [][/\ NoUserNamedMe'
       /\ \A e \in Emails : signup("me", e) => resp'.status = 400
       /\ \A a \in Actors, p \in CreatePayloads :
             (UserCreate(a, p) /\ IsAdmin(a) /\ p.username = "me")
                => resp'.status = 400
       /\ \A a \in Actors, n \in TargetNames, p \in PatchPayloads :
             (UserUpdate(a, n, p) /\ IsAdmin(a) /\ UserByName(n) # {}
              /\ p.username = "me") => resp'.status = 400
       /\ \A a \in Actors, p \in PatchPayloads :
             (get_self_user_page_PATCH(a, p) /\ IsAuthenticated(a)
              /\ p.username = "me") => resp'.status = 400]_vars

\* The user a confirmation code was made for, and whether it is in time.
IssuedTo(code) == code.hash[1]
InTime(code) == now - code.ts <= PasswordResetTimeout

\* C6 as stated: a stored username with a code valid for it gets 200 and a
\* token for that user, a stored username with any other code gets 400, and
\* a username that is not stored gets 404.
C6_ThreeOutcomes ==
    [][resp'.op = "token" =>
       \A n \in Usernames \cup {"bob"}, c \in Codes :
          token(n, c) =>
             IF UserByName(n) = {} THEN resp'.status = 404
             ELSE IF /\ c.kind = "token"
                     /\ c.hash = MakeHashValue(NamedBy(n), users[NamedBy(n)], c.ts)
                     /\ InTime(c)
                  THEN resp'.status = 200 /\ resp'.num = NamedBy(n)
                  ELSE resp'.status = 400]_vars

\* C6 amended: a request with a blank username or code gets 400 before any
\* lookup; otherwise the three outcomes are as stated, and a token is issued
\* only on a code that was sent, was made for that very user and is in time.
C6_OutcomesOfWellFormedRequests ==
    [][resp'.op = "token" =>
       \A n \in Usernames \cup {"bob", Blank}, c \in Codes :
          token(n, c) =>
             IF n = Blank \/ c = BlankCode THEN resp'.status = 400
             ELSE IF UserByName(n) = {} THEN resp'.status = 404
             ELSE IF /\ c.kind = "token"
                     /\ c.hash = MakeHashValue(NamedBy(n), users[NamedBy(n)], c.ts)
                     /\ InTime(c)
                  THEN /\ resp'.status = 200 /\ resp'.num = NamedBy(n)
                       /\ mail.sent /\ c = mail.code
                       /\ IssuedTo(c) = NamedBy(n)
                  ELSE resp'.status = 400 /\ resp'.num = 0]_vars

\* C6 happened: a token was issued to the user the kept code was made for.
C6_Witness ==
    /\ resp.op = "token" /\ resp.status = 200
    /\ mail.sent /\ resp.num = IssuedTo(mail.code)

\* A profile update (either path) that changes the row of the user the kept
\* code was made for, while that code is valid.
ProfileUpdateOf(pk) ==
    /\ resp'.op \in {"patch_me", "update_user"}
    /\ users[pk].stored /\ users'[pk].stored
    /\ users'[pk] # users[pk]
    /\ CheckToken(pk, users[pk], mail.code)

\* C7 as stated: once the profile of the user is changed by an update, the
\* code issued before is no longer accepted, whichever field changed.
C7_AnyProfileChangeInvalidates ==
    [][mail.sent =>
          LET pk == IssuedTo(mail.code)
          IN ProfileUpdateOf(pk) => ~CheckToken(pk, users[pk], mail.code)']_vars

\* C7 amended: the code is bound to what the token generator hashes (pk,
\* password, last_login, issue time and, where it is hashed, e-mail); an
\* update that leaves the e-mail as it was (a change of username, name, bio
\* or role) leaves the code as valid as it was, and an update of a hashed
\* e-mail makes it invalid.
C7_CodeBoundToHashedState ==
    [][mail.sent =>
          LET pk == IssuedTo(mail.code)
          IN ProfileUpdateOf(pk) =>
                IF hashesEmail /\ users'[pk].email # users[pk].email
                THEN ~CheckToken(pk, users[pk], mail.code)'
                ELSE CheckToken(pk, users[pk], mail.code)']_vars

\* C7 happened: a token was issued, on a code from signup, to a user whose
\* username no signup of the model uses, so it was changed after the code.
C7_Witness ==
    /\ resp.op = "token" /\ resp.status = 200
    /\ users[resp.num].stored /\ users[resp.num].username = "bob"

\* C8: a signup with the username and e-mail of a stored user answers 200,
\* creates no user and leaves every row, its role included, as it was.
C8_SignupIdempotent ==
    [][resp'.op = "signup" =>
       \A n \in Usernames, e \in Emails :
          (signup(n, e) /\ UserByName(n) \cap UserByEmail(e) # {}) =>
             /\ resp'.status = 200
             /\ users' = users
             /\ nextUserId' = nextUserId]_vars

\* C8 happened: a signup fetched a user that is not the initial superuser
\* and whose role and bio are no longer the defaults.
C8_Witness ==
    /\ resp.op = "signup" /\ resp.status = 200 /\ resp.note = "fetched"
    /\ resp.num # 1
    /\ users[resp.num].role = ADMIN /\ users[resp.num].bio = "bio"

(***************************************************************************)
(* Properties of the catalog: /categories/, /genres/, /titles/.            *)
(***************************************************************************)
\* What a write on the catalog by `actor` must lead to: refused, with
\* nothing changed, unless the actor is authenticated and is an admin or a
\* superuser.
CatalogWriteRule(actor) ==
    IF actor # Anonymous
       /\ (users[actor].role = ADMIN \/ users[actor].is_superuser)
    THEN resp'.status \notin {401, 403}
    ELSE /\ resp'.status = IF actor = Anonymous THEN 401 ELSE 403
         /\ UNCHANGED <<catalogVars, reviews, comments>>

CatalogWrites ==
    {"create_category", "create_genre", "delete_category", "delete_genre",
     "create_title", "update_title", "delete_title"}

CatalogReads ==
    {"list_category", "list_genre", "list_title", "retrieve_title"}

\* C2: a create, update or delete of a category, genre or title is refused
\* (401 or 403) and changes nothing unless the actor is authenticated with
\* the admin role or the superuser flag, and is not refused for such an
\* actor; a safe request on these resources is refused to nobody.
C2_CatalogWritesAdminOnly ==
    [][/\ resp'.op \in CatalogWrites => CatalogWriteRule(resp'.by)
       /\ (resp'.op \in {"other_category", "other_genre"}
           /\ resp'.note \notin SafeMethods) => CatalogWriteRule(resp'.by)
       /\ (resp'.op \in {"other_category", "other_genre"}
           /\ resp'.note \in SafeMethods) => resp'.status \notin {401, 403}
       /\ resp'.op \in CatalogReads => resp'.status \notin {401, 403}]_vars

\* C2 happened: a moderator was refused a write on a catalog in which a
\* title, created by an admin or the superuser, is stored.
C2_Witness ==
    /\ resp.op \in CatalogWrites /\ resp.status = 403
    /\ users[resp.by].role = MODERATOR
    /\ StoredTitles # {}

(***************************************************************************)
(* Properties of the reviews.                                              *)
(***************************************************************************)
HasReview(author, title) ==
    \E r \in StoredReviews :
        reviews[r].author = author /\ reviews[r].title = title

UniqueReviews ==
    \A r1, r2 \in StoredReviews :
        (reviews[r1].author = reviews[r2].author
         /\ reviews[r1].title = reviews[r2].title) => r1 = r2

\* C1: after every step no two stored reviews share their author and
\* their title, and a request to create a review for a pair that already
\* has one, whether it is refused by the validation or by the insert of
\* a request validated concurrently, ends in a failure response and
\* leaves the reviews as they were.
C1_OneReviewPerAuthorAndTitle ==
    [][/\ UniqueReviews'
       /\ (resp'.op = "create_review" /\ resp'.status # 0
           /\ HasReview(resp'.by, resp'.num))
          => (resp'.status \in {400, 500} /\ reviews' = reviews)]_vars

\* Two requests of one author for one title were both validated, one was
\* saved and the insert of the other was refused by the constraint.
C1_Witness ==
    /\ resp.op = "create_review" /\ resp.status = 500
    /\ HasReview(resp.by, resp.num)
    /\ Cardinality(StoredReviews) >= 2

\* C9 as stated: the rating in a title's representation is the
\* arithmetic mean of the scores of its reviews, and null without any.
C9_RatingIsTheMean ==
    [][(resp'.op = "retrieve_title" /\ resp'.status = 200)
       => IF ReviewsOf(resp'.num) = {}
          THEN resp'.note = "null"
          ELSE /\ resp'.note = "rating"
               /\ resp'.rating * Avg(resp'.num)[2] = Avg(resp'.num)[1]]_vars

\* C9: the rating is null exactly when the title has no review, and
\* otherwise the integer part of the arithmetic mean of the scores.
C9_RatingIsTheTruncatedMean ==
    [][(resp'.op = "retrieve_title" /\ resp'.status = 200)
       => IF ReviewsOf(resp'.num) = {}
          THEN resp'.note = "null"
          ELSE /\ resp'.note = "rating"
               /\ resp'.rating * Avg(resp'.num)[2] <= Avg(resp'.num)[1]
               /\ Avg(resp'.num)[1] < (resp'.rating + 1) * Avg(resp'.num)[2]]_vars

\* A title whose scores have a fractional mean was read.
C9_Witness ==
    /\ resp.op = "retrieve_title" /\ resp.status = 200
    /\ ReviewsOf(resp.num) # {}
    /\ Avg(resp.num)[1] % Avg(resp.num)[2] # 0
    /\ resp.note = "rating"

(***************************************************************************)
(* Properties of the reviews' and the comments' routes.                    *)
(***************************************************************************)
MayChange(actor, author) ==
    /\ actor # Anonymous
    /\ \/ actor = author
       \/ users[actor].role \in {MODERATOR, ADMIN}
       \/ users[actor].is_superuser

FeedbackWriteRule(actor, author) ==
    IF MayChange(actor, author)
    THEN resp'.status \in {200, 204, 400}
    ELSE /\ resp'.status = IF actor = Anonymous THEN 401 ELSE 403
         /\ UNCHANGED <<reviews, comments>>

\* C3: an update or a delete of a stored review or comment, sent to the
\* object's URL, goes through exactly when the actor is authenticated and
\* is the author, a moderator, an admin or a superuser; from anyone else
\* it is refused, 401 without credentials and 403 with, and the reviews
\* and the comments stay as they were.
C3_OwnerOrStaffMayChange ==
    [][/\ (resp'.op \in {"update_review", "delete_review"}
           /\ resp'.num \in StoredReviews)
          => FeedbackWriteRule(resp'.by, reviews[resp'.num].author)
       /\ (resp'.op \in {"update_comment", "delete_comment"}
           /\ resp'.num \in StoredComments)
          => FeedbackWriteRule(resp'.by, comments[resp'.num].author)]_vars

\* A plain user who is not the author was refused the edit of a comment,
\* which a moderator or the author had been free to make.
C3_Witness ==
    /\ resp.op = "update_comment" /\ resp.status = 403
    /\ resp.num \in StoredComments
    /\ comments[resp.num].author # resp.by
    /\ users[resp.by].role = USER /\ ~users[resp.by].is_superuser
    /\ \E r \in StoredReviews : reviews[r].score = 6

\* C10 as stated, for the comment requests that the permission check
\* lets through with a well-formed body: when the title_id of the URL is
\* not stored, the response is 404 and nothing stored changes, also when
\* the review_id is stored.
C10_CommentUnderMissingTitleIsNotFound ==
    [][resp'.op \in {"list_comment", "retrieve_comment", "create_comment",
                     "update_comment", "delete_comment"}
       => \A t \in UrlTitles \ StoredTitles, r \in UrlReviews,
             c \in UrlComments, x \in NewTexts \cup EditedTexts :
             (\/ CommentList(resp'.by, t, r)
              \/ CommentRetrieve(resp'.by, t, r, c)
              \/ IsAuthenticated(resp'.by) /\ CommentValid(x)
                 /\ CommentCreate(resp'.by, t, r, x)
              \/ IsAuthenticated(resp'.by) /\ CommentUpdate(resp'.by, t, r, c, x)
              \/ IsAuthenticated(resp'.by) /\ CommentDestroy(resp'.by, t, r, c))
             => (resp'.status = 404 /\ UNCHANGED <<reviews, comments>>)]_vars

(***************************************************************************)
(* Properties of the deletion of a category.                               *)
(***************************************************************************)
CategoryOfTitlesStored ==
    \A t \in StoredTitles :
        titles[t].category = Null \/ titles[t].category \in categories

\* C11: a request to delete a category deletes no title: the stored
\* titles, the reviews and the comments are the same after it as before,
\* except that every title that referenced a category the request removed
\* now has a null category; and in the initial state and after every step
\* the category of a stored title is null or a stored category.
C11_CategoryDeleteNullsTitles ==
    /\ CategoryOfTitlesStored
    /\ [][/\ CategoryOfTitlesStored'
          /\ resp'.op = "delete_category"
             => /\ StoredTitles' = StoredTitles
                /\ reviews' = reviews /\ comments' = comments
                /\ \A t \in StoredTitles :
                      titles'[t] =
                        IF titles[t].category \in categories \ categories'
                        THEN [titles[t] EXCEPT !.category = Null]
                        ELSE titles[t]]_vars

\* A category was deleted while a title that carries a review with a
\* comment referenced it; the title is stored with a null category.
C11_Witness ==
    /\ resp.op = "delete_category" /\ resp.status = 204
    /\ \E t \in StoredTitles :
          /\ titles[t].category = Null
          /\ \E r \in ReviewsOf(t) : CommentsOf(r) # {}

====
